---- MODULE Spec2Model ----
(***************************************************************************)
(* Model of the R1CS verifier engine of src/circuit_proof/verifier.rs:     *)
(* the pre-commit VerifierCS, the commit transition with its deferred      *)
(* callbacks, the CommittedVerifierCS, constraint flattening and verify.   *)
(*                                                                         *)
(* Scalars are modelled by integers: flattening uses only +, - and * of    *)
(* the scalar field, so every identity checked over the integers holds in  *)
(* the field by reduction modulo the group order.  The scalars of the      *)
(* mega-check need Scalar::invert and are computed in a small prime field. *)
(* Group arithmetic (the value of the multiscalar multiplication) and the  *)
(* transcript's hash are external: the transcript is the sequence of       *)
(* operations performed on it and the outcome of the multiscalar           *)
(* multiplication is an input.                                             *)
(***************************************************************************)
EXTENDS Integers, Sequences, FiniteSets, TLC

VARIABLES
    phase,          \* which object exists: "NONE", "PRE" (VerifierCS), "POST"
                    \* (CommittedVerifierCS), "FAILED" (commit returned Err,
                    \* the CS was dropped), "CONSUMED" (verify took self)
    transcript,     \* the operations performed on the Merlin transcript, in order
    num_vars,       \* VerifierCS.num_vars
    V,              \* VerifierCS.V
    constraints,    \* VerifierCS.constraints
    callbacks,      \* VerifierCS.callbacks (the queue of deferred closures)
    committed_variables_count, \* CommittedVerifierCS.committed_variables_count
    gens_capacity,  \* bp_gens.gens_capacity
    result,         \* what the last commit, verify or after_commitment on the
                    \* committed CS returned ("none" before)
    registered,     \* history: bodies of the closures queued so far, in order
    ran,            \* history: begin/end events of the closures commit has run
    immediate,      \* history: closures run at once by after_commitment in POST
    vlocal,         \* the local values of the last verify / flattening call
    variables,      \* history: the variables VerifierCS::new returned
    multipliers     \* history: what the calls of assign_multiplier returned

vars == <<phase, transcript, num_vars, V, constraints, callbacks,
          committed_variables_count, gens_capacity, result, registered, ran,
          immediate, vlocal, variables, multipliers>>

----------------------------------------------------------------------------
(* Bounds of the model *)

MaxVars == 2         \* multipliers allocated in one lifecycle run
MaxCons == 1         \* constraints added by direct calls in one lifecycle run
MaxCallbacks == 2    \* closures registered before commit
MaxPostOps == 1      \* direct challenge_scalar / after_commitment calls in POST
VMaxN == 5           \* multipliers of the committed CS handed to verify
VMaxM == 1           \* externals of the committed CS handed to verify
VMaxGens == 8        \* gens_capacity of the generators handed to verify
FlatMaxN == 2        \* multipliers of the CS whose constraints are flattened
FlatMaxM == 2        \* externals of the CS whose constraints are flattened
FlatMaxCons == 2     \* constraints of the CS whose constraints are flattened
SMaxN == 3           \* multipliers of the CS whose mega-check scalars are computed
InsMaxN == 1         \* multipliers of the CS in whose list a constraint is inserted
InsMaxM == 1         \* externals of the CS in whose list a constraint is inserted
InsMaxCons == 2      \* constraints of the list in which a constraint is inserted

----------------------------------------------------------------------------
(* Data *)

One == [kind |-> "One", i |-> 0]
Committed(i) == [kind |-> "Committed", i |-> i]
MultiplierLeft(i) == [kind |-> "MultiplierLeft", i |-> i]
MultiplierRight(i) == [kind |-> "MultiplierRight", i |-> i]
MultiplierOutput(i) == [kind |-> "MultiplierOutput", i |-> i]

\* Variable { index, assignment }; an assignment is Missing (the verifier's)
\* or a value.
Variable(index, assignment) == [index |-> index, assignment |-> assignment]
Missing == "Missing"

\* The variables a gadget holds for a CS with n multipliers and m externals:
\* those returned by new and assign_multiplier, and the constant One.
Variables(n, m) ==
    {One} \cup {Committed(i) : i \in 0..(m - 1)}
          \cup {MultiplierLeft(i) : i \in 0..(n - 1)}
          \cup {MultiplierRight(i) : i \in 0..(n - 1)}
          \cup {MultiplierOutput(i) : i \in 0..(n - 1)}

\* Compressed points: "Pbad" is a 32-byte string that does not decompress.
CompressedPoints == {"P1", "Pbad"}
decompress(p) == IF p = "Pbad" THEN "None" ELSE p

\* A transcript operation; `at` is the engine operation that performed it.
TOp(op, label, i, at) == [op |-> op, label |-> label, i |-> i, at |-> at]

----------------------------------------------------------------------------
(* Scalars *)

RECURSIVE Pow(_, _)
Pow(z, e) == IF e = 0 THEN 1 ELSE z * Pow(z, e - 1)

RECURSIVE SumSeq(_)
SumSeq(xs) == IF xs = <<>> THEN 0 ELSE Head(xs) + SumSeq(Tail(xs))

Min(a, b) == IF a <= b THEN a ELSE b

\* Scalar: an integer modulo the prime order of the group; the mega-check
\* scalars are computed modulo ScalarOrder.
ScalarOrder == 7
Sc(v) == v % ScalarOrder

\* Scalar::invert: the multiplicative inverse, y^(order - 2)
invert(y) == Sc(Pow(Sc(y), ScalarOrder - 2))

\* util::exp_iter(x).take(k): 1, x, x^2, ..., x^(k-1)
exp_iter_take(x, k) == [i \in 1..k |-> Sc(Pow(Sc(x), i - 1))]

\* inner_product::inner_product
inner_product(a, b) == Sc(SumSeq([i \in 1..Len(a) |-> a[i] * b[i]]))

----------------------------------------------------------------------------
(* Deferred closures.  A closure is gadget code run on the committed CS: a *)
(* sequence of CS calls followed by the value it returns.                  *)

NoCb == [ops |-> <<>>, res |-> "Ok"]
OpAssign == [op |-> "assign_multiplier", lc |-> <<>>, cb |-> NoCb]
OpConstrain(lc) == [op |-> "add_constraint", lc |-> lc, cb |-> NoCb]
OpChallenge == [op |-> "challenge_scalar", lc |-> <<>>, cb |-> NoCb]
OpAfter(cb) == [op |-> "after_commitment", lc |-> <<>>, cb |-> cb]

CbFailA == [ops |-> <<>>, res |-> "GadgetError(a)"]
CbChallenge == [ops |-> <<OpChallenge>>, res |-> "Ok"]
CbChallengeFailB == [ops |-> <<OpChallenge>>, res |-> "GadgetError(b)"]
CbAlloc ==
    [ops |-> <<OpAssign,
               OpConstrain(<<<<MultiplierLeft(0), 1>>, <<One, -1>>>>)>>,
     res |-> "Ok"]
CbNested == [ops |-> <<OpAfter(CbChallenge)>>, res |-> "Ok"]

CallbackSet == {CbFailA, CbChallenge, CbChallengeFailB, CbAlloc, CbNested}

----------------------------------------------------------------------------
(* The ConstraintSystem operations, as functions of the CS fields          *)
(* s = [num_vars, constraints, transcript].                                *)

\* VerifierCS::assign_multiplier (CommittedVerifierCS delegates to it): the
\* three variables it returns are appended to the history s.multipliers.
assign_multiplierIndexAfter(s, left, right, out) ==
    LET var == s.num_vars + 1
    IN  [s EXCEPT !.num_vars = @ + 1,
                  !.multipliers =
                      Append(@, << Variable(MultiplierLeft(var), left),
                                   Variable(MultiplierRight(var), right),
                                   Variable(MultiplierOutput(var), out) >>)]
assign_multiplier(s, left, right, out) ==
    LET var == s.num_vars
    IN  [s EXCEPT !.num_vars = @ + 1,
                  !.multipliers =
                      Append(@, << Variable(MultiplierLeft(var), left),
                                   Variable(MultiplierRight(var), right),
                                   Variable(MultiplierOutput(var), out) >>)]

\* VerifierCS::add_constraint (CommittedVerifierCS delegates to it)
add_constraintFront(s, lc) == [s EXCEPT !.constraints = << lc >> \o @]
add_constraint(s, lc) == [s EXCEPT !.constraints = Append(@, lc)]

\* CommittedVerifierCS::challenge_scalar
challenge_scalar(s, label, at) ==
    [s EXCEPT !.transcript = Append(@, TOp("challenge_scalar", label, 0, at))]

\* The states in which challenge_scalar exists: only CommittedVerifierCS
\* implements CommittedConstraintSystem.
ChallengeScalarInPre(ph) == ph \in {"PRE", "POST"}
ChallengeScalarAvailable(ph) == ph = "POST"

\* A closure called with the committed CS: its calls in order.  On the
\* committed CS after_commitment calls the closure at once (callback(self)).
RECURSIVE RunOps(_, _, _)
RunOps(ops, s, at) ==
    IF ops = <<>> THEN s
    ELSE LET o == Head(ops)
             s1 == CASE o.op = "assign_multiplier" ->
                          assign_multiplier(s, Missing, Missing, Missing)
                     [] o.op = "add_constraint" -> add_constraint(s, o.lc)
                     [] o.op = "challenge_scalar" -> challenge_scalar(s, "gadget", at)
                     [] o.op = "after_commitment" -> RunOps(o.cb.ops, s, at)
         IN  RunOps(Tail(ops), s1, at)

\* CommittedVerifierCS::after_commitment: callback(self)
committed_after_commitment(s, cb, at) == RunOps(cb.ops, s, at)

\* A call of CommittedVerifierCS::after_commitment: the CS fields afterwards,
\* the value returned and the queue of deferred closures afterwards.
CommittedAfterCommitmentQueues(s, queue, cb, at) ==
    [cs |-> s, res |-> "Ok",
     callbacks |-> Append(queue, [id |-> Len(queue) + 1, body |-> cb])]
CommittedAfterCommitmentCall(s, queue, cb, at) ==
    [cs |-> committed_after_commitment(s, cb, at), res |-> cb.res,
     callbacks |-> queue]

Ev(ev, id) == [ev |-> ev, id |-> id]

\* The loop of commit: `for closure in closures.drain(..) { closure(cs)? }`.
\* Returns the CS fields, the events logged and the value commit returns.
RECURSIVE RunClosuresKeepGoing(_, _, _)
RunClosuresKeepGoing(closures, s, log) ==
    IF closures = <<>> THEN [cs |-> s, ran |-> log, res |-> "Ok"]
    ELSE LET c == Head(closures)
             s1 == committed_after_commitment(s, c.body, "commit")
             log1 == log \o <<Ev("begin", c.id), Ev("end", c.id)>>
             rest == RunClosuresKeepGoing(Tail(closures), s1, log1)
         IN  IF c.body.res # "Ok" /\ rest.res = "Ok"
             THEN [rest EXCEPT !.res = c.body.res]
             ELSE rest

RECURSIVE RunClosuresTwice(_, _, _)
RunClosuresTwice(closures, s, log) ==
    IF closures = <<>> THEN [cs |-> s, ran |-> log, res |-> "Ok"]
    ELSE LET c == Head(closures)
             s1 == committed_after_commitment(
                       committed_after_commitment(s, c.body, "commit"),
                       c.body, "commit")
             log1 == log \o <<Ev("begin", c.id), Ev("end", c.id),
                              Ev("begin", c.id), Ev("end", c.id)>>
         IN  IF c.body.res # "Ok"
             THEN [cs |-> s1, ran |-> log1, res |-> c.body.res]
             ELSE RunClosuresTwice(Tail(closures), s1, log1)

RECURSIVE RunClosuresLifo(_, _, _)
RunClosuresLifo(closures, s, log) ==
    IF closures = <<>> THEN [cs |-> s, ran |-> log, res |-> "Ok"]
    ELSE LET c == closures[Len(closures)]
             s1 == committed_after_commitment(s, c.body, "commit")
             log1 == log \o <<Ev("begin", c.id), Ev("end", c.id)>>
         IN  IF c.body.res # "Ok"
             THEN [cs |-> s1, ran |-> log1, res |-> c.body.res]
             ELSE RunClosuresLifo(SubSeq(closures, 1, Len(closures) - 1), s1, log1)

RECURSIVE RunClosures(_, _, _)
RunClosures(closures, s, log) ==
    IF closures = <<>> THEN [cs |-> s, ran |-> log, res |-> "Ok"]
    ELSE LET c == Head(closures)
             s1 == committed_after_commitment(s, c.body, "commit")
             log1 == log \o <<Ev("begin", c.id), Ev("end", c.id)>>
         IN  IF c.body.res # "Ok"
             THEN [cs |-> s1, ran |-> log1, res |-> c.body.res]
             ELSE RunClosures(Tail(closures), s1, log1)

----------------------------------------------------------------------------
(* Flattening *)

\* usize::next_power_of_two: the smallest power of two >= n; 1 for n = 0.
RECURSIVE PowerOfTwoFrom(_, _)
PowerOfTwoFrom(p, n) == IF p >= n THEN p ELSE PowerOfTwoFrom(2 * p, n)
next_power_of_two(n) == PowerOfTwoFrom(1, n)

Zeros(n) == [i \in 1..n |-> 0]

FlattenTermSign(term, exp_z, acc) ==
    LET var == term[1]
        coeff == term[2]
        i == var.i
    IN  CASE var.kind = "MultiplierLeft" ->
               [acc EXCEPT !.wL[i + 1] = @ + exp_z * coeff]
          [] var.kind = "MultiplierRight" ->
               [acc EXCEPT !.wR[i + 1] = @ + exp_z * coeff]
          [] var.kind = "MultiplierOutput" ->
               [acc EXCEPT !.wO[i + 1] = @ + exp_z * coeff]
          [] var.kind = "Committed" ->
               [acc EXCEPT !.wV[i + 1] = @ + exp_z * coeff]
          [] var.kind = "One" ->
               [acc EXCEPT !.wc = @ - exp_z * coeff]

\* One term of a constraint: the match on the variable's kind.  Vec[i] with
\* i out of range panics (Rust bounds check).
FlattenTerm(term, exp_z, acc) ==
    LET var == term[1]
        coeff == term[2]
        i == var.i
    IN  CASE var.kind = "MultiplierLeft" ->
               IF i < Len(acc.wL)
               THEN [acc EXCEPT !.wL[i + 1] = @ + exp_z * coeff]
               ELSE [acc EXCEPT !.panic = TRUE]
          [] var.kind = "MultiplierRight" ->
               IF i < Len(acc.wR)
               THEN [acc EXCEPT !.wR[i + 1] = @ + exp_z * coeff]
               ELSE [acc EXCEPT !.panic = TRUE]
          [] var.kind = "MultiplierOutput" ->
               IF i < Len(acc.wO)
               THEN [acc EXCEPT !.wO[i + 1] = @ + exp_z * coeff]
               ELSE [acc EXCEPT !.panic = TRUE]
          [] var.kind = "Committed" ->
               IF i < Len(acc.wV)
               THEN [acc EXCEPT !.wV[i + 1] = @ - exp_z * coeff]
               ELSE [acc EXCEPT !.panic = TRUE]
          [] var.kind = "One" ->
               [acc EXCEPT !.wc = @ - exp_z * coeff]

\* for (var, coeff) in &lc.terms
RECURSIVE FlattenTerms(_, _, _)
FlattenTerms(terms, exp_z, acc) ==
    IF terms = <<>> \/ acc.panic THEN acc
    ELSE FlattenTerms(Tail(terms), exp_z, FlattenTerm(Head(terms), exp_z, acc))

\* for lc in self.cs.constraints.iter() { ...; exp_z *= z }
RECURSIVE FlattenLoopSkipEmpty(_, _, _, _)
FlattenLoopSkipEmpty(cons, exp_z, z, acc) ==
    IF cons = <<>> \/ acc.panic THEN acc
    ELSE IF \A t \in 1..Len(Head(cons)) : Head(cons)[t][2] = 0
    THEN FlattenLoopSkipEmpty(Tail(cons), exp_z, z, acc)
    ELSE FlattenLoopSkipEmpty(Tail(cons), exp_z * z, z,
                              FlattenTerms(Head(cons), exp_z, acc))

RECURSIVE FlattenLoop(_, _, _, _)
FlattenLoop(cons, exp_z, z, acc) ==
    IF cons = <<>> \/ acc.panic THEN acc
    ELSE FlattenLoop(Tail(cons), exp_z * z, z,
                     FlattenTerms(Head(cons), exp_z, acc))

\* CommittedVerifierCS::flattened_constraints
flattened_constraintsPadded(n, m, cons, z) ==
    FlattenLoop(cons, z, z,
                [wL |-> Zeros(next_power_of_two(n)),
                 wR |-> Zeros(next_power_of_two(n)),
                 wO |-> Zeros(next_power_of_two(n)),
                 wV |-> Zeros(m), wc |-> 0, panic |-> FALSE])
flattened_constraints(n, m, cons, z) ==
    FlattenLoop(cons, z, z,
                [wL |-> Zeros(n), wR |-> Zeros(n), wO |-> Zeros(n),
                 wV |-> Zeros(m), wc |-> 0, panic |-> FALSE])

----------------------------------------------------------------------------
(* verify *)


\* lg of a power of two
RECURSIVE Lg(_)
Lg(p) == IF p <= 1 THEN 0 ELSE 1 + Lg(p \div 2)

\* An R1CSProof: its compressed points, its scalars t_x, t_x_blinding,
\* e_blinding and the inner-product proof's vectors and scalars a, b.
PointFields == {"A_I", "A_O", "S", "T_1", "T_3", "T_4", "T_5", "T_6"}
GoodProof(k) ==
    [A_I |-> "P1", A_O |-> "P1", S |-> "P1", T_1 |-> "P1", T_3 |-> "P1",
     T_4 |-> "P1", T_5 |-> "P1", T_6 |-> "P1",
     t_x |-> 4, t_x_blinding |-> 5, e_blinding |-> 6, a |-> 2, b |-> 3,
     L_vec |-> [j \in 1..k |-> "P1"], R_vec |-> [j \in 1..k |-> "P1"]]

\* A proof with the last element of L_vec, of R_vec or of both removed.
DropLast(q) == SubSeq(q, 1, Len(q) - 1)
TruncatedProofs(proof) ==
    IF Len(proof.L_vec) = 0 THEN {}
    ELSE {[proof EXCEPT !.L_vec = DropLast(@)],
          [proof EXCEPT !.R_vec = DropLast(@)],
          [proof EXCEPT !.L_vec = DropLast(@), !.R_vec = DropLast(@)]}

\* The proofs with k-element L_vec and R_vec of which at most one point does
\* not decompress, and the truncated proofs.
ProofInputs(k) ==
    {GoodProof(k)}
    \cup {[GoodProof(k) EXCEPT ![f] = "Pbad"] : f \in PointFields}
    \cup {[GoodProof(k) EXCEPT !.L_vec[j] = "Pbad"] : j \in 1..k}
    \cup {[GoodProof(k) EXCEPT !.R_vec[j] = "Pbad"] : j \in 1..k}
    \cup TruncatedProofs(GoodProof(k))

\* The values of the challenges verify draws (y, z, x, w), of the scalar r it
\* samples and of the first challenge u of the inner-product subverifier.
Challenges(y, z, x) == [y |-> y, z |-> z, x |-> x, w |-> 2, r |-> 3, u |-> 2]

\* The gate before anything else in verify: gens_capacity < padded_n
PreCheckFailsStrict(cap, padded_n) == cap <= padded_n
PreCheckFails(cap, padded_n) == cap < padded_n

\* The transcript operations of verify up to the challenge w, in order.
VerifyAbsorbsSwapped ==
    << TOp("commit_point", "A_I", 0, "verify"),
       TOp("commit_point", "A_O", 0, "verify"),
       TOp("commit_point", "S", 0, "verify"),
       TOp("challenge_scalar", "y", 0, "verify"),
       TOp("challenge_scalar", "z", 0, "verify"),
       TOp("commit_point", "T_1", 0, "verify"),
       TOp("commit_point", "T_3", 0, "verify"),
       TOp("commit_point", "T_4", 0, "verify"),
       TOp("commit_point", "T_5", 0, "verify"),
       TOp("commit_point", "T_6", 0, "verify"),
       TOp("commit_scalar", "t_x", 0, "verify"),
       TOp("commit_scalar", "t_x_blinding", 0, "verify"),
       TOp("commit_scalar", "e_blinding", 0, "verify"),
       TOp("challenge_scalar", "x", 0, "verify"),
       TOp("challenge_scalar", "w", 0, "verify") >>
VerifyAbsorbs ==
    << TOp("commit_point", "A_I", 0, "verify"),
       TOp("commit_point", "A_O", 0, "verify"),
       TOp("commit_point", "S", 0, "verify"),
       TOp("challenge_scalar", "y", 0, "verify"),
       TOp("challenge_scalar", "z", 0, "verify"),
       TOp("commit_point", "T_1", 0, "verify"),
       TOp("commit_point", "T_3", 0, "verify"),
       TOp("commit_point", "T_4", 0, "verify"),
       TOp("commit_point", "T_5", 0, "verify"),
       TOp("commit_point", "T_6", 0, "verify"),
       TOp("challenge_scalar", "x", 0, "verify"),
       TOp("commit_scalar", "t_x", 0, "verify"),
       TOp("commit_scalar", "t_x_blinding", 0, "verify"),
       TOp("commit_scalar", "e_blinding", 0, "verify"),
       TOp("challenge_scalar", "w", 0, "verify") >>

\* InnerProductProof::verification_scalars: the subverifier draws its own
\* challenges from the transcript, one per (L_j, R_j) pair.
verification_scalars(proof) ==
    [j \in 1..Len(proof.L_vec) |-> TOp("challenge_scalar", "ipp", j - 1, "ipp")]

\* What the subverifier returns: it is given the proof and the transcript
\* only, so from k = |L_vec| rounds with challenges u_1..u_k it yields k
\* squares u_j^2, k inverse squares u_j^-2 and the 2^k entries of s.
verification_scalars_values(proof, u) ==
    LET k == Len(proof.L_vec)
    IN  [u_sq |-> [j \in 1..k |-> Sc((u + j - 1) * (u + j - 1))],
         u_inv_sq |-> [j \in 1..k |-> invert((u + j - 1) * (u + j - 1))],
         s |-> [i \in 1..Pow(2, k) |-> Sc(u + i)]]

\* yneg_wR: wR zipped with the powers of y^-1, then pad zeros
yneg_wR(wR, y_inv_vec, pad) ==
    [i \in 1..Min(Len(wR), Len(y_inv_vec)) |-> Sc(wR[i] * y_inv_vec[i])]
    \o Zeros(pad)

\* g_scalars: yneg_wR zipped with s.iter().take(padded_n)
g_scalars(yneg, s, padded_n, x, a) ==
    [i \in 1..Min(Len(yneg), Min(Len(s), padded_n)) |->
        Sc(x * yneg[i] - a * s[i])]

\* h_scalars: the powers of y^-1 zipped with s.iter().rev().take(padded_n)
\* and with wL and wO, each followed by pad zeros
h_scalarsForward(y_inv_vec, s, wL, wO, pad, padded_n, x, b) ==
    LET wLp == wL \o Zeros(pad)
        wOp == wO \o Zeros(pad)
        len == Min(Min(Len(y_inv_vec), Min(Len(s), padded_n)),
                   Min(Len(wLp), Len(wOp)))
    IN  [i \in 1..len |->
            Sc(y_inv_vec[i] * (x * wLp[i] + wOp[i] - b * s[i]) - 1)]
h_scalars(y_inv_vec, s, wL, wO, pad, padded_n, x, b) ==
    LET s_rev == [i \in 1..Min(Len(s), padded_n) |-> s[Len(s) + 1 - i]]
        wLp == wL \o Zeros(pad)
        wOp == wO \o Zeros(pad)
        len == Min(Min(Len(y_inv_vec), Len(s_rev)), Min(Len(wLp), Len(wOp)))
    IN  [i \in 1..len |->
            Sc(y_inv_vec[i] * (x * wLp[i] + wOp[i] - b * s_rev[i]) - 1)]

\* T_scalars = [r * x, rxx * x, rxx * xx, rxx * xxx, rxx * xx * xx]
T_scalars(x, r) ==
    LET xx == x * x
        rxx == r * xx
        xxx == x * xx
    IN  << Sc(r * x), Sc(rxx * x), Sc(rxx * xx), Sc(rxx * xxx),
           Sc(rxx * xx * xx) >>

\* An entry of the scalar sequence: the expression it comes from, its index
\* in that expression's vector and its value.
Term(name, i, val) == [name |-> name, i |-> i, val |-> val]
Terms(name, vals) == [i \in 1..Len(vals) |-> Term(name, i - 1, vals[i])]

\* The scalars handed to the multiscalar multiplication, in order.
MegaScalarsSwapped(ch, proof, flat, delta, g, h, ipp) ==
    LET x == ch.x
        r == ch.r
        xx == x * x
        rxx == r * xx
        xxx == x * xx
    IN  << Term("x", 0, Sc(x)), Term("xx", 0, Sc(xx)), Term("xxx", 0, Sc(xxx)) >>
        \o Terms("wV * rxx", [i \in 1..Len(flat.wV) |-> Sc(flat.wV[i] * rxx)])
        \o Terms("T_scalars", T_scalars(x, r))
        \o << Term("B", 0,
                    Sc(ch.w * (proof.t_x - proof.a * proof.b)
                       + r * (xx * (flat.wc + delta) - proof.t_x))) >>
        \o << Term("B_blinding", 0,
                    Sc(0 - proof.e_blinding - r * proof.t_x_blinding)) >>
        \o Terms("h_scalars", h)
        \o Terms("g_scalars", g)
        \o Terms("u_sq", ipp.u_sq)
        \o Terms("u_inv_sq", ipp.u_inv_sq)
MegaScalars(ch, proof, flat, delta, g, h, ipp) ==
    LET x == ch.x
        r == ch.r
        xx == x * x
        rxx == r * xx
        xxx == x * xx
    IN  << Term("x", 0, Sc(x)), Term("xx", 0, Sc(xx)), Term("xxx", 0, Sc(xxx)) >>
        \o Terms("wV * rxx", [i \in 1..Len(flat.wV) |-> Sc(flat.wV[i] * rxx)])
        \o Terms("T_scalars", T_scalars(x, r))
        \o << Term("B", 0,
                    Sc(ch.w * (proof.t_x - proof.a * proof.b)
                       + r * (xx * (flat.wc + delta) - proof.t_x))) >>
        \o << Term("B_blinding", 0,
                    Sc(0 - proof.e_blinding - r * proof.t_x_blinding)) >>
        \o Terms("g_scalars", g)
        \o Terms("h_scalars", h)
        \o Terms("u_sq", ipp.u_sq)
        \o Terms("u_inv_sq", ipp.u_inv_sq)

\* Which point each entry of the point sequence is, in order.
Base(name, i) == [name |-> name, i |-> i]
MegaPointNames(proof, Vs, padded_n) ==
    << Base("A_I", 0), Base("A_O", 0), Base("S", 0) >>
    \o [i \in 1..Len(Vs) |-> Base("V", i - 1)]
    \o << Base("T_1", 0), Base("T_3", 0), Base("T_4", 0), Base("T_5", 0),
          Base("T_6", 0) >>
    \o << Base("B", 0), Base("B_blinding", 0) >>
    \o [i \in 1..padded_n |-> Base("G", i - 1)]
    \o [i \in 1..padded_n |-> Base("H", i - 1)]
    \o [j \in 1..Len(proof.L_vec) |-> Base("L", j - 1)]
    \o [j \in 1..Len(proof.R_vec) |-> Base("R", j - 1)]

\* The base points handed to the multiscalar multiplication, in order.
MegaPoints(proof, Vs, padded_n) ==
    << decompress(proof.A_I), decompress(proof.A_O), decompress(proof.S) >>
    \o [i \in 1..Len(Vs) |-> decompress(Vs[i])]
    \o << decompress(proof.T_1), decompress(proof.T_3), decompress(proof.T_4),
          decompress(proof.T_5), decompress(proof.T_6) >>
    \o << "B", "B_blinding" >>
    \o [i \in 1..padded_n |-> "G"]
    \o [i \in 1..padded_n |-> "H"]
    \o [j \in 1..Len(proof.L_vec) |-> decompress(proof.L_vec[j])]
    \o [j \in 1..Len(proof.R_vec) |-> decompress(proof.R_vec[j])]

\* RistrettoPoint::optional_multiscalar_mul: None when a point is None, else
\* the sum, which is the identity or not (ident).
optional_multiscalar_mul(points, ident) ==
    IF \E i \in 1..Len(points) : points[i] = "None" THEN "None"
    ELSE IF ident THEN "identity" ELSE "other"

\* What verify returns for the value of the multiscalar multiplication:
\* ok_or_else(VerificationError)?, then the is_identity test.
MegaCheckResultLeaky(mega_check) ==
    CASE mega_check = "None" -> "FormatError"
      [] mega_check = "other" -> "VerificationError"
      [] mega_check = "identity" -> "Ok"
MegaCheckResult(mega_check) ==
    CASE mega_check = "None" -> "VerificationError"
      [] mega_check = "other" -> "VerificationError"
      [] mega_check = "identity" -> "Ok"

NoFlat == [wL |-> <<>>, wR |-> <<>>, wO |-> <<>>, wV |-> <<>>, wc |-> 0,
           panic |-> FALSE]
NoLocal == [called |-> "none", n |-> 0, m |-> 0, padded_n |-> 0, pad |-> 0,
            cap |-> 0, z |-> 0, cons |-> <<>>, before |-> <<>>,
            proof |-> GoodProof(0), ident |-> FALSE,
            steps |-> <<>>, flat |-> NoFlat, points |-> <<>>,
            mega_check |-> "not computed",
            ch |-> Challenges(0, 0, 0), u_sq |-> <<>>, u_inv_sq |-> <<>>,
            s |-> <<>>, y_inv_vec |-> <<>>, yneg_wR |-> <<>>, delta |-> 0,
            g_scalars |-> <<>>, h_scalars |-> <<>>, scalars |-> <<>>,
            point_names |-> <<>>]

Marker(name) == TOp(name, "", 0, "verify")
IsTranscriptOp(o) ==
    o.op \in {"domain_sep", "commit_point", "commit_scalar",
              "challenge_scalar", "build_rng"}

\* CommittedVerifierCS::verify on the CS fields s, generators capacity cap
\* and externals Vs: the value returned, the transcript afterwards and the
\* local values.  ch holds the values of the challenges, ident whether the
\* multiscalar sum is the identity.
verify(s, cap, Vs, proof, ch, ident) ==
    LET n == s.num_vars
        padded_n == next_power_of_two(s.num_vars)
        pad == padded_n - n
        loc == [NoLocal EXCEPT !.called = "verify", !.n = n, !.m = Len(Vs),
                               !.padded_n = padded_n, !.pad = pad,
                               !.cap = cap, !.z = ch.z, !.cons = s.constraints,
                               !.before = s.transcript,
                               !.proof = proof, !.ident = ident, !.ch = ch]
        flat == flattened_constraints(n, Len(Vs), s.constraints, ch.z)
        steps == VerifyAbsorbs
                 \o << Marker("flattened_constraints") >>
                 \o << Marker("verification_scalars") >>
                 \o verification_scalars(proof)
                 \o << TOp("build_rng", "", 0, "verify"),
                       Marker("random_scalar") >>
        ipp == verification_scalars_values(proof, ch.u)
        y_inv_vec == exp_iter_take(invert(ch.y), padded_n)
        yneg == yneg_wR(flat.wR, y_inv_vec, pad)
        delta == inner_product(SubSeq(yneg, 1, n), flat.wL)
        g == g_scalars(yneg, ipp.s, padded_n, ch.x, proof.a)
        h == h_scalars(y_inv_vec, ipp.s, flat.wL, flat.wO, pad, padded_n,
                       ch.x, proof.b)
        points == MegaPoints(proof, Vs, padded_n)
        mega_check == optional_multiscalar_mul(points, ident)
    IN  IF PreCheckFails(cap, padded_n)
        THEN [result |-> "InvalidGeneratorsLength",
              transcript |-> s.transcript, local |-> loc]
        ELSE IF flat.panic
        THEN [result |-> "panic",
              transcript |-> s.transcript \o VerifyAbsorbs,
              local |-> [loc EXCEPT !.steps = VerifyAbsorbs, !.flat = flat]]
        ELSE [result |-> MegaCheckResult(mega_check),
              transcript |-> s.transcript \o SelectSeq(steps, IsTranscriptOp),
              local |-> [loc EXCEPT !.steps = steps, !.flat = flat,
                                    !.points = points,
                                    !.mega_check = mega_check,
                                    !.u_sq = ipp.u_sq,
                                    !.u_inv_sq = ipp.u_inv_sq, !.s = ipp.s,
                                    !.y_inv_vec = y_inv_vec,
                                    !.yneg_wR = yneg, !.delta = delta,
                                    !.g_scalars = g, !.h_scalars = h,
                                    !.scalars =
                                        MegaScalars(ch, proof, flat, delta,
                                                    g, h, ipp),
                                    !.point_names =
                                        MegaPointNames(proof, Vs, padded_n)]]

----------------------------------------------------------------------------
(* Inputs *)

RECURSIVE SeqsUpTo(_, _)
SeqsUpTo(S, k) ==
    IF k = 0 THEN {<<>>}
    ELSE LET shorter == SeqsUpTo(S, k - 1)
         IN  shorter \cup {Append(q, x) : q \in shorter, x \in S}

\* Constraints a gadget adds by a direct call in a lifecycle run, over the
\* variables it holds.
LifecycleConstraints(n, m) ==
    {<< <<One, 1>> >>}
    \cup (IF n > 0 THEN {<< <<MultiplierOutput(n - 1), 1>>, <<One, -1>> >>}
          ELSE {})
    \cup (IF m > 0 THEN {<< <<Committed(m - 1), 2>> >>} ELSE {})

\* Externals and generator capacities handed to new in a lifecycle run.
LifecycleCommitments == {<<>>, <<"P1">>, <<"P1", "Pbad">>}
LifecycleGens == {1}

\* Proofs handed to verify in a lifecycle run.
LifecycleProofs(k) == {GoodProof(k), [GoodProof(k) EXCEPT !.A_I = "Pbad"]}

\* Values of the challenge z.
ZSet == {3, -2}

\* Constraints over the variables of a CS with n multipliers and m externals:
\* no term, one term, the same variable twice, a variable and the constant.
FlatPool(n, m) ==
    {<<>>}
    \cup {<< <<v, 1>> >> : v \in Variables(n, m)}
    \cup {<< <<v, 1>>, <<v, 2>> >> : v \in Variables(n, m)}
    \cup {<< <<v, -1>>, <<One, 2>> >> : v \in Variables(n, m)}

----------------------------------------------------------------------------
(* Operations *)

Fields == [num_vars |-> num_vars, constraints |-> constraints,
           transcript |-> transcript, multipliers |-> multipliers]

\* VerifierCS::new: what it writes to the transcript
new_transcriptReversed(commitments) ==
    << TOp("domain_sep", "dom-sep", Len(commitments), "new") >>
    \o [i \in 1..Len(commitments) |->
           TOp("commit_point", "V", Len(commitments) - i, "new")]
new_transcript(commitments) ==
    << TOp("domain_sep", "dom-sep", Len(commitments), "new") >>
    \o [i \in 1..Len(commitments) |-> TOp("commit_point", "V", i - 1, "new")]

\* VerifierCS::new: the variables it returns
new_variables(commitments) ==
    [i \in 1..Len(commitments) |-> Variable(Committed(i - 1), Missing)]

New(commitments, cap) ==
    /\ phase = "NONE"
    /\ phase' = "PRE"
    /\ transcript' = transcript \o new_transcript(commitments)
    /\ num_vars' = 0
    /\ V' = commitments
    /\ constraints' = <<>>
    /\ callbacks' = <<>>
    /\ gens_capacity' = cap
    /\ variables' = new_variables(commitments)
    /\ multipliers' = <<>>
    /\ UNCHANGED <<committed_variables_count, result, registered, ran,
                   immediate, vlocal>>

\* assign_multiplier on VerifierCS, or on CommittedVerifierCS (delegates)
AssignMultiplier(left, right, out) ==
    /\ phase \in {"PRE", "POST"}
    /\ num_vars < MaxVars
    /\ LET s == assign_multiplier(Fields, left, right, out)
       IN  /\ num_vars' = s.num_vars
           /\ multipliers' = s.multipliers
           /\ constraints' = s.constraints
           /\ transcript' = s.transcript
    /\ UNCHANGED <<phase, V, callbacks,
                   committed_variables_count, gens_capacity, result,
                   registered, ran, immediate, vlocal, variables>>

\* add_constraint on VerifierCS, or on CommittedVerifierCS (delegates)
AddConstraint(lc) ==
    /\ phase \in {"PRE", "POST"}
    /\ Len(constraints) < MaxCons
    /\ LET s == add_constraint(Fields, lc)
       IN  /\ constraints' = s.constraints
           /\ num_vars' = s.num_vars
           /\ multipliers' = s.multipliers
           /\ transcript' = s.transcript
    /\ UNCHANGED <<phase, V, callbacks,
                   committed_variables_count, gens_capacity, result,
                   registered, ran, immediate, vlocal, variables>>

\* VerifierCS::after_commitment: self.callbacks.push(Box::new(callback))
AfterCommitmentPreRunsCallback(cb) ==
    /\ phase = "PRE"
    /\ Len(callbacks) < MaxCallbacks
    /\ LET r == RunOps(cb.ops, Fields, "PRE")
       IN  /\ num_vars' = r.num_vars
           /\ constraints' = r.constraints
           /\ transcript' = r.transcript
           /\ multipliers' = r.multipliers
    /\ callbacks' = Append(callbacks, [id |-> Len(registered) + 1, body |-> cb])
    /\ registered' = Append(registered, cb)
    /\ UNCHANGED <<phase, V, committed_variables_count, gens_capacity,
                   result, ran, immediate, vlocal, variables>>
AfterCommitmentPre(cb) ==
    /\ phase = "PRE"
    /\ Len(callbacks) < MaxCallbacks
    /\ callbacks' = Append(callbacks, [id |-> Len(registered) + 1, body |-> cb])
    /\ registered' = Append(registered, cb)
    /\ UNCHANGED <<phase, transcript, num_vars, V, constraints,
                   committed_variables_count, gens_capacity, result, ran,
                   immediate, vlocal, variables, multipliers>>

DirectChallenges ==
    Len(SelectSeq(transcript, LAMBDA o : o.label = "direct"))

\* CommittedVerifierCS::after_commitment: callback(self)
AfterCommitmentPost(cb) ==
    /\ phase = "POST"
    /\ immediate + DirectChallenges < MaxPostOps
    /\ LET r == CommittedAfterCommitmentCall(Fields, callbacks, cb, "POST")
       IN  /\ num_vars' = r.cs.num_vars
           /\ constraints' = r.cs.constraints
           /\ transcript' = r.cs.transcript
           /\ callbacks' = r.callbacks
           /\ result' = r.res
           /\ multipliers' = r.cs.multipliers
    /\ immediate' = immediate + 1
    /\ UNCHANGED <<phase, V, committed_variables_count,
                   gens_capacity, registered, ran, vlocal, variables>>

\* CommittedVerifierCS::challenge_scalar called by gadget code
ChallengeScalar ==
    /\ ChallengeScalarAvailable(phase)
    /\ immediate + DirectChallenges < MaxPostOps
    /\ transcript' = challenge_scalar(Fields, "direct", phase).transcript
    /\ UNCHANGED <<phase, num_vars, V, constraints, callbacks,
                   committed_variables_count, gens_capacity, result,
                   registered, ran, immediate, vlocal, variables,
                   multipliers>>

\* VerifierCS::commit
Commit ==
    /\ phase = "PRE"
    /\ LET r == RunClosures(callbacks, Fields, <<>>)
       IN  /\ phase' = IF r.res = "Ok" THEN "POST" ELSE "FAILED"
           /\ result' = r.res
           /\ ran' = r.ran
           /\ num_vars' = r.cs.num_vars
           /\ constraints' = r.cs.constraints
           /\ transcript' = r.cs.transcript
           /\ multipliers' = r.cs.multipliers
    /\ committed_variables_count' = num_vars
    /\ callbacks' = <<>>
    /\ UNCHANGED <<V, gens_capacity, registered, immediate, vlocal,
                   variables>>

\* Who may call verify: it takes a CommittedVerifierCS by value.
VerifyAvailableInPre(ph) == ph \in {"PRE", "POST"}
VerifyAvailable(ph) == ph = "POST"

\* CommittedVerifierCS::verify
Verify(proof, ch, ident) ==
    /\ VerifyAvailable(phase)
    /\ LET r == verify(Fields, gens_capacity, V, proof, ch, ident)
       IN  /\ result' = r.result
           /\ transcript' = r.transcript
           /\ vlocal' = r.local
    /\ phase' = "CONSUMED"
    /\ UNCHANGED <<num_vars, V, constraints, callbacks,
                   committed_variables_count, gens_capacity, registered, ran,
                   immediate, variables, multipliers>>

\* flattened_constraints applied to the committed CS with challenge z
Flatten(z) ==
    /\ phase = "POST"
    /\ vlocal.called = "none"
    /\ vlocal' = [NoLocal EXCEPT
                    !.called = "flattened_constraints",
                    !.n = num_vars, !.m = Len(V), !.z = z,
                    !.cons = constraints,
                    !.flat = flattened_constraints(num_vars, Len(V),
                                                   constraints, z)]
    /\ UNCHANGED <<phase, transcript, num_vars, V, constraints, callbacks,
                   committed_variables_count, gens_capacity, result,
                   registered, ran, immediate, variables, multipliers>>

----------------------------------------------------------------------------
(* Specifications *)

\* The life of one verifier instance, from before VerifierCS::new.
Init ==
    /\ phase = "NONE"
    /\ transcript = <<>>
    /\ num_vars = 0
    /\ V = <<>>
    /\ constraints = <<>>
    /\ callbacks = <<>>
    /\ committed_variables_count = 0
    /\ gens_capacity = 0
    /\ result = "none"
    /\ registered = <<>>
    /\ ran = <<>>
    /\ immediate = 0
    /\ vlocal = NoLocal
    /\ variables = <<>>
    /\ multipliers = <<>>

Next ==
    \/ \E commitments \in LifecycleCommitments, cap \in LifecycleGens :
          New(commitments, cap)
    \/ AssignMultiplier(Missing, Missing, Missing)
    \/ \E lc \in LifecycleConstraints(num_vars, Len(V)) : AddConstraint(lc)
    \/ \E cb \in CallbackSet : AfterCommitmentPre(cb)
    \/ \E cb \in CallbackSet : AfterCommitmentPost(cb)
    \/ ChallengeScalar
    \/ Commit
    \/ \E proof \in LifecycleProofs(Lg(next_power_of_two(num_vars))),
          ident \in BOOLEAN :
          Verify(proof, Challenges(2, 2, 3), ident)

Spec == Init /\ [][Next]_vars

\* The assignments handed to assign_multiplier and the closures registered
\* in an assembly run.
AssignmentTriples == {<<Missing, Missing, Missing>>, <<"Value(2)", "Value(3)", "Value(6)">>}
AssemblyCallbacks == {CbAlloc, CbFailA}

\* The life of one verifier instance with every operation of the assembly
\* API, flattening and verify.
NextAssembly ==
    \/ \E commitments \in LifecycleCommitments, cap \in LifecycleGens :
          New(commitments, cap)
    \/ \E asg \in AssignmentTriples : AssignMultiplier(asg[1], asg[2], asg[3])
    \/ \E lc \in LifecycleConstraints(num_vars, Len(V)) : AddConstraint(lc)
    \/ \E cb \in AssemblyCallbacks : AfterCommitmentPre(cb)
    \/ \E cb \in AssemblyCallbacks : AfterCommitmentPost(cb)
    \/ ChallengeScalar
    \/ Commit
    \/ \E z \in ZSet : Flatten(z)
    \/ \E ident \in BOOLEAN :
          Verify(GoodProof(Lg(next_power_of_two(num_vars))),
                 Challenges(2, 3, 3), ident)

SpecAssembly == Init /\ [][NextAssembly]_vars

\* A committed CS as commit returns it, with n multipliers, externals Vs,
\* constraints cons and generators of capacity cap.
Committed_CS(n, Vs, cons, cap) ==
    /\ phase = "POST"
    /\ transcript = new_transcript(Vs)
    /\ num_vars = n
    /\ V = Vs
    /\ constraints = cons
    /\ callbacks = <<>>
    /\ committed_variables_count = n
    /\ gens_capacity = cap
    /\ result = "Ok"
    /\ registered = <<>>
    /\ ran = <<>>
    /\ immediate = 0
    /\ vlocal = NoLocal
    /\ variables = new_variables(Vs)
    /\ multipliers =
          [k \in 1..n |-> << Variable(MultiplierLeft(k - 1), Missing),
                             Variable(MultiplierRight(k - 1), Missing),
                             Variable(MultiplierOutput(k - 1), Missing) >>]

\* verify on committed constraint systems of every size up to VMaxN.
InitVerify ==
    \E n \in 0..VMaxN, Vs \in SeqsUpTo(CompressedPoints, VMaxM),
       cap \in 0..VMaxGens :
       \E cons \in SeqsUpTo(LifecycleConstraints(n, Len(Vs)), 1) :
          Committed_CS(n, Vs, cons, cap)

NextVerify ==
    \E proof \in ProofInputs(Lg(next_power_of_two(num_vars))),
       z \in ZSet, ident \in BOOLEAN :
       Verify(proof, Challenges(2, z, 3), ident)

SpecVerify == InitVerify /\ [][NextVerify]_vars

\* flattened_constraints on the constraint lists drawn from FlatPool.
InitFlat ==
    \E n \in 0..FlatMaxN, m \in 0..FlatMaxM :
       \E cons \in SeqsUpTo(FlatPool(n, m), FlatMaxCons) :
          Committed_CS(n, [i \in 1..m |-> "P1"], cons, 0)

NextFlat == \E z \in ZSet : Flatten(z)

SpecFlat == InitFlat /\ [][NextFlat]_vars

\* Constraints of one term each, and the constraint with no term.
InsertPool(n, m) == {<<>>} \cup {<< <<v, 1>> >> : v \in Variables(n, m)}

\* flattened_constraints on the lists in which a constraint is then inserted.
InitInsert ==
    \E n \in 0..InsMaxN, m \in 0..InsMaxM :
       \E cons \in SeqsUpTo(InsertPool(n, m), InsMaxCons) :
          Committed_CS(n, [i \in 1..m |-> "P1"], cons, 0)

SpecInsert == InitInsert /\ [][NextFlat]_vars

\* Constraints with a term on each wire of one multiplier, in which the
\* wires have different coefficients.
ScalarPool(n) ==
    {<< <<MultiplierLeft(i), 1>>, <<MultiplierRight(i), 2>>,
        <<MultiplierOutput(i), 3>> >> : i \in 0..(n - 1)}

\* Values of the challenges y and x, and of the proof's scalars a and b.
YSet == {2, 5}
XSet == {1, 3}
ABSet == {<<2, 3>>, <<4, 1>>}

\* verify with the values of its scalars, on committed constraint systems
\* with up to SMaxN multipliers and generators to match.
InitScalars ==
    \E n \in 0..SMaxN :
       \E cons \in SeqsUpTo(ScalarPool(n), 2) :
          Committed_CS(n, <<"P1">>, cons, next_power_of_two(n))

NextScalars ==
    \E y \in YSet, x \in XSet, ab \in ABSet, ident \in BOOLEAN :
       \E proof \in {GoodProof(Lg(next_power_of_two(num_vars)))}
                     \cup TruncatedProofs(
                              GoodProof(Lg(next_power_of_two(num_vars)))) :
          Verify([proof EXCEPT !.a = ab[1], !.b = ab[2]],
                 Challenges(y, 3, x), ident)

SpecScalars == InitScalars /\ [][NextScalars]_vars

----------------------------------------------------------------------------
(* Properties *)

\* The log of k closures run one after the other, in registration order.
FifoLog(k) ==
    [j \in 1..(2 * k) |->
        IF j % 2 = 1 THEN Ev("begin", (j + 1) \div 2) ELSE Ev("end", j \div 2)]

IsPrefix(p, q) == Len(p) <= Len(q) /\ SubSeq(q, 1, Len(p)) = p

Begins(id) == {j \in 1..Len(ran) : ran[j] = Ev("begin", id)}

CommitReturned == phase \in {"POST", "FAILED", "CONSUMED"}
CommitReturnedOk == phase \in {"POST", "CONSUMED"}

\* C1 as stated: no closure runs before commit, and once commit has returned
\* every closure registered on the pre-commit CS has run exactly once, in
\* registration order, each to completion before the next.
C1_EveryCallbackRunExactlyOnce ==
    /\ ~CommitReturned => ran = <<>>
    /\ CommitReturned =>
          /\ \A id \in 1..Len(registered) : Cardinality(Begins(id)) = 1
          /\ ran = FifoLog(Len(registered))

\* C1 amended: no closure runs before commit; commit runs the registered
\* closures in registration order, each to completion before the next and
\* none twice; all of them exactly once when commit returns Ok; when commit
\* returns an error the closures after the failing one have not run.
C1_CallbacksRunFifoAtMostOnce ==
    /\ ~CommitReturned => ran = <<>>
    /\ IsPrefix(ran, FifoLog(Len(registered)))
    /\ \A id \in 1..Len(registered) : Cardinality(Begins(id)) <= 1
    /\ CommitReturnedOk => ran = FifoLog(Len(registered))
    /\ phase = "FAILED" =>
          \E f \in 1..Len(registered) :
             /\ registered[f].res # "Ok"
             /\ ran = FifoLog(f)

C1_Witness ==
    /\ phase = "POST"
    /\ registered = <<CbAlloc, CbChallenge>>
    /\ ran = <<Ev("begin", 1), Ev("end", 1), Ev("begin", 2), Ev("end", 2)>>

IsChallenge(o) == o.op = "challenge_scalar"
ChallengeIndices == {i \in 1..Len(transcript) : IsChallenge(transcript[i])}

\* The transcript starts with the domain separator carrying m and then
\* V_0 .. V_{m-1}.
ExternalsAbsorbed ==
    /\ Len(transcript) >= 1 + Len(V)
    /\ transcript[1].op = "domain_sep" /\ transcript[1].i = Len(V)
    /\ \A j \in 1..Len(V) :
          /\ transcript[j + 1].op = "commit_point"
          /\ transcript[j + 1].label = "V"
          /\ transcript[j + 1].i = j - 1

\* C2: every challenge is drawn after commit has started, hence after the
\* domain separator and all external commitments have been absorbed; no
\* challenge is in the transcript while the engine is in the pre-commit state.
C2_NoChallengeBeforeCommit ==
    /\ phase \in {"NONE", "PRE"} => ChallengeIndices = {}
    /\ \A i \in ChallengeIndices :
          /\ transcript[i].at \in {"commit", "POST", "verify", "ipp"}
          /\ ExternalsAbsorbed
          /\ i > 1 + Len(V)

C2_Witness ==
    /\ phase = "POST"
    /\ Len(V) = 2
    /\ \E i \in ChallengeIndices : transcript[i].at = "commit"
    /\ \E i \in ChallengeIndices : transcript[i].at = "POST"

Absorbed(label, before) ==
    \E j \in 1..(before - 1) :
       transcript[j].op = "commit_point" /\ transcript[j].label = label

\* C3 as stated: commit absorbs A_I, A_O and S, so every challenge drawn by
\* challenge_scalar on the committed CS (in a closure run by commit, or by a
\* direct call) comes after A_I, A_O and S in the transcript.
C3_ChallengesAfterProofCommitments ==
    \A i \in ChallengeIndices :
       transcript[i].at \in {"commit", "POST"} =>
          Absorbed("A_I", i) /\ Absorbed("A_O", i) /\ Absorbed("S", i)

\* The transcript operations and steps C4 lists, for a proof with k pairs
\* (L_j, R_j).
Absorb(label) == [op |-> "commit_point", label |-> label, i |-> 0, at |-> "verify"]
AbsorbScalar(label) == [op |-> "commit_scalar", label |-> label, i |-> 0, at |-> "verify"]
Draw(label) == [op |-> "challenge_scalar", label |-> label, i |-> 0, at |-> "verify"]
Step(name) == [op |-> name, label |-> "", i |-> 0, at |-> "verify"]
C4_Order(k) ==
    << Absorb("A_I"), Absorb("A_O"), Absorb("S"), Draw("y"), Draw("z"),
       Absorb("T_1"), Absorb("T_3"), Absorb("T_4"), Absorb("T_5"),
       Absorb("T_6"), Draw("x"), AbsorbScalar("t_x"),
       AbsorbScalar("t_x_blinding"), AbsorbScalar("e_blinding"), Draw("w"),
       Step("flattened_constraints"), Step("verification_scalars") >>
    \o [j \in 1..k |-> [op |-> "challenge_scalar", label |-> "ipp",
                        i |-> j - 1, at |-> "ipp"]]
    \o << Step("build_rng"), Step("random_scalar") >>

NotAStep(o) == o.op \notin {"flattened_constraints", "verification_scalars",
                            "random_scalar"}

PreCheckPassed == vlocal.called = "verify" /\ result # "InvalidGeneratorsLength"

\* C4: when the generator pre-check passes, verify performs exactly these
\* steps in this order, and its transcript operations are exactly those of
\* the list, appended to the transcript as it was when verify was called:
\* absorb A_I, A_O, S; draw y, z; absorb T_1, T_3, T_4, T_5, T_6; draw x;
\* absorb t_x, t_x_blinding, e_blinding; draw w; flatten; the inner-product
\* subverifier; build the RNG and sample r.
C4_VerifyTranscriptOrder ==
    PreCheckPassed =>
       /\ vlocal.steps = C4_Order(Len(vlocal.proof.L_vec))
       /\ transcript =
             vlocal.before
             \o SelectSeq(C4_Order(Len(vlocal.proof.L_vec)), NotAStep)

C4_Witness ==
    /\ PreCheckPassed
    /\ result = "Ok"
    /\ vlocal.n = 3
    /\ Len(vlocal.proof.L_vec) = 2
    /\ Len(transcript) = Len(vlocal.before) + 18

RECURSIVE FirstFailing(_, _)
FirstFailing(bodies, j) ==
    IF j > Len(bodies) THEN 0
    ELSE IF bodies[j].res # "Ok" THEN j ELSE FirstFailing(bodies, j + 1)

\* C5: if a deferred closure returns an error, commit stops at the first
\* such closure, returns its error unchanged, runs no later closure and
\* yields no committed CS: verify has not run and cannot run on the instance.
C5_CommitAbortsAtFirstError ==
    LET f == FirstFailing(registered, 1)
    IN  /\ (CommitReturned /\ f # 0) =>
              /\ phase = "FAILED"
              /\ result = registered[f].res
              /\ ran = FifoLog(f)
              /\ vlocal.called = "none"
              /\ ~ENABLED Verify(GoodProof(0), Challenges(2, 2, 3), TRUE)
        /\ phase = "FAILED" => f # 0

C5_Witness ==
    /\ phase = "FAILED"
    /\ registered = <<CbChallengeFailB, CbFailA>>
    /\ result = "GadgetError(b)"
    /\ ran = <<Ev("begin", 1), Ev("end", 1)>>

\* The challenges a closure draws, those of the closures it calls included.
RECURSIVE ChallengeCount(_)
ChallengeCount(ops) ==
    IF ops = <<>> THEN 0
    ELSE (CASE Head(ops).op = "challenge_scalar" -> 1
            [] Head(ops).op = "after_commitment" -> ChallengeCount(Head(ops).cb.ops)
            [] OTHER -> 0)
         + ChallengeCount(Tail(ops))

RECURSIVE ChallengesUpTo(_, _)
ChallengesUpTo(bodies, f) ==
    IF f = 0 THEN 0
    ELSE ChallengesUpTo(bodies, f - 1) + ChallengeCount(bodies[f].ops)

AfterExternals == {i \in 1..Len(transcript) : i > 1 + Len(V)}

\* C6 as stated: when commit has aborted, no challenge has been drawn after
\* the external commitments were absorbed.
C6_NoChallengeWhenAssemblyFails ==
    phase = "FAILED" =>
       \A i \in AfterExternals : ~IsChallenge(transcript[i])

\* C6 amended: when commit has aborted, the transcript holds after the
\* externals only the challenges drawn by the closures that ran, up to and
\* including the failing one: nothing of the proof was absorbed and none of
\* verify's challenges y, z, x, w was drawn.
C6_OnlyCallbackChallengesWhenAssemblyFails ==
    phase = "FAILED" =>
       /\ ExternalsAbsorbed
       /\ Cardinality(AfterExternals) =
             ChallengesUpTo(registered, FirstFailing(registered, 1))
       /\ \A i \in AfterExternals :
             /\ IsChallenge(transcript[i])
             /\ transcript[i].at = "commit"
             /\ transcript[i].label \notin {"y", "z", "x", "w"}

C6_Witness ==
    /\ phase = "FAILED"
    /\ registered = <<CbNested, CbChallengeFailB>>
    /\ Cardinality(AfterExternals) = 2

\* C7: when gens_capacity is below the padded multiplier count, verify
\* returns InvalidGeneratorsLength having performed no step and left the
\* transcript as it was; otherwise it never returns InvalidGeneratorsLength.
C7_GeneratorPreCheck ==
    vlocal.called = "verify" =>
       /\ gens_capacity < vlocal.padded_n =>
             /\ result = "InvalidGeneratorsLength"
             /\ transcript = vlocal.before
             /\ vlocal.steps = <<>>
       /\ gens_capacity >= vlocal.padded_n =>
             result # "InvalidGeneratorsLength"

C7_Witness ==
    /\ vlocal.called = "verify"
    /\ num_vars = 3
    /\ gens_capacity = 3
    /\ result = "InvalidGeneratorsLength"
    /\ transcript = vlocal.before

\* The sum over the constraints q (from 1) and their terms on variable var
\* of z^q * coeff.
WeightSum(cons, z, var) ==
    SumSeq([q \in 1..Len(cons) |->
              SumSeq([t \in 1..Len(cons[q]) |->
                        IF cons[q][t][1] = var
                        THEN Pow(z, q) * cons[q][t][2]
                        ELSE 0])])

\* C8: flattened_constraints returns wL, wR, wO of length n and wV of length
\* m with, the q-th constraint (q from 0) weighted by z^(q+1): wL[i], wR[i],
\* wO[i] the sums of z^(q+1)*coeff over the terms on MultiplierLeft(i),
\* MultiplierRight(i), MultiplierOutput(i), wV[i] minus the sum over the
\* terms on Committed(i) and wc minus the sum over the terms on One; a
\* constraint with no terms still advances the power of z.
C8_FlattenedWeights ==
    vlocal.called = "flattened_constraints" =>
       LET fl == vlocal.flat
           n == num_vars
           m == Len(V)
           z == vlocal.z
       IN  /\ ~fl.panic
           /\ Len(fl.wL) = n /\ Len(fl.wR) = n /\ Len(fl.wO) = n
           /\ Len(fl.wV) = m
           /\ \A i \in 0..(n - 1) :
                 /\ fl.wL[i + 1] = WeightSum(constraints, z, MultiplierLeft(i))
                 /\ fl.wR[i + 1] = WeightSum(constraints, z, MultiplierRight(i))
                 /\ fl.wO[i + 1] = WeightSum(constraints, z, MultiplierOutput(i))
           /\ \A i \in 0..(m - 1) :
                 fl.wV[i + 1] = 0 - WeightSum(constraints, z, Committed(i))
           /\ fl.wc = 0 - WeightSum(constraints, z, One)

C8_Witness ==
    /\ vlocal.called = "flattened_constraints"
    /\ vlocal.z = 3
    /\ num_vars = 2
    /\ constraints = << <<>>, << <<Committed(1), 1>>, <<Committed(1), 2>> >> >>
    /\ vlocal.flat.wV = << 0, -27 >>

IsPowerOfTwo(p) == \E e \in 0..p : Pow(2, e) = p

\* The padded size of the specification: 0 for n = 0, else the least power of
\* two >= n.
LeastPowerOfTwoOrZero(n) ==
    IF n = 0 THEN 0
    ELSE CHOOSE p \in 1..(2 * n) :
            /\ IsPowerOfTwo(p)
            /\ p >= n
            /\ \A r \in 1..(p - 1) : ~(IsPowerOfTwo(r) /\ r >= n)

\* C9 as stated: the padded size n' used by verify is 0 when num_vars = 0 and
\* otherwise the least power of two >= num_vars, with pad = n' - n >= 0; for
\* n = 0 the pre-check compares gens_capacity against 0 (so never fails) and
\* the mega-check has no G_i and no H_i.
C9_PaddedSize ==
    vlocal.called = "verify" =>
       /\ vlocal.padded_n = LeastPowerOfTwoOrZero(num_vars)
       /\ vlocal.pad = vlocal.padded_n - num_vars
       /\ vlocal.pad >= 0
       /\ num_vars = 0 =>
             /\ result # "InvalidGeneratorsLength"
             /\ \A i \in 1..Len(vlocal.points) : vlocal.points[i] \notin {"G", "H"}

\* The points verify is given: those of the proof and the externals.
AllDecompress(proof, Vs) ==
    /\ \A f \in PointFields : proof[f] # "Pbad"
    /\ \A j \in 1..Len(proof.L_vec) : proof.L_vec[j] # "Pbad"
    /\ \A j \in 1..Len(proof.R_vec) : proof.R_vec[j] # "Pbad"
    /\ \A i \in 1..Len(Vs) : Vs[i] # "Pbad"

\* C10: verify returns Ok exactly when the generator pre-check passes, every
\* compressed point of the mega-check decompresses and the multiscalar sum
\* is the identity; past the pre-check, a point that does not decompress and
\* a sum that is not the identity both give the one value VerificationError.
C10_AcceptIffIdentity ==
    vlocal.called = "verify" =>
       /\ result = "Ok" <=>
             /\ gens_capacity >= vlocal.padded_n
             /\ AllDecompress(vlocal.proof, V)
             /\ vlocal.ident
       /\ (/\ gens_capacity >= vlocal.padded_n
           /\ ~(AllDecompress(vlocal.proof, V) /\ vlocal.ident))
             => result = "VerificationError"

C10_Witness ==
    /\ vlocal.called = "verify"
    /\ num_vars = 4
    /\ vlocal.ident
    /\ vlocal.proof.R_vec = <<"P1", "Pbad">>
    /\ result = "VerificationError"

C10_WitnessOk ==
    /\ vlocal.called = "verify"
    /\ num_vars = 4
    /\ V = <<"P1">>
    /\ result = "Ok"

\* The proof's inner-product vectors do not both have lg n' elements.
TruncatedVectors ==
    \/ Len(vlocal.proof.L_vec) # Lg(vlocal.padded_n)
    \/ Len(vlocal.proof.R_vec) # Lg(vlocal.padded_n)

MegaCheckEvaluated == vlocal.mega_check # "not computed"

\* C11 as stated: a proof whose L_vec or R_vec is truncated by one element
\* is always rejected by verify with FormatError or VerificationError, and
\* verify never evaluates the mega-check with an s vector whose length is
\* not n'.
C11_TruncatedProofRejected ==
    (PreCheckPassed /\ TruncatedVectors) =>
       /\ result \in {"FormatError", "VerificationError"}
       /\ MegaCheckEvaluated => Len(vlocal.s) = vlocal.padded_n

\* The multipliers a closure allocates and the constraints it adds, those of
\* the closures it calls included.
RECURSIVE AssignCount(_)
AssignCount(ops) ==
    IF ops = <<>> THEN 0
    ELSE (CASE Head(ops).op = "assign_multiplier" -> 1
            [] Head(ops).op = "after_commitment" -> AssignCount(Head(ops).cb.ops)
            [] OTHER -> 0)
         + AssignCount(Tail(ops))

RECURSIVE ConstraintsOf(_)
ConstraintsOf(ops) ==
    IF ops = <<>> THEN <<>>
    ELSE (CASE Head(ops).op = "add_constraint" -> << Head(ops).lc >>
            [] Head(ops).op = "after_commitment" -> ConstraintsOf(Head(ops).cb.ops)
            [] OTHER -> <<>>)
         \o ConstraintsOf(Tail(ops))

DrawnAt(at) == {i \in ChallengeIndices : transcript[i].at = at}

\* C12: after_commitment on the committed CS runs the closure at once and to
\* completion (all its allocations, constraints and challenges are in the CS
\* when the call returns), returns the closure's own result and queues
\* nothing; a closure that commit runs may itself call after_commitment, and
\* that inner closure has run too when commit returns Ok, with no closure
\* left in the queue.
C12_PostAfterCommitmentImmediate ==
    /\ [](CommitReturnedOk =>
            /\ callbacks = <<>>
            /\ Cardinality(DrawnAt("commit")) =
                  ChallengesUpTo(registered, Len(registered)))
    /\ [][\A cb \in CallbackSet :
             AfterCommitmentPost(cb) =>
                /\ result' = cb.res
                /\ callbacks' = <<>>
                /\ num_vars' = num_vars + AssignCount(cb.ops)
                /\ constraints' = constraints \o ConstraintsOf(cb.ops)
                /\ Len(transcript') = Len(transcript) + ChallengeCount(cb.ops)
                /\ SubSeq(transcript', 1, Len(transcript)) = transcript
                /\ \A i \in (Len(transcript) + 1)..Len(transcript') :
                      /\ IsChallenge(transcript'[i])
                      /\ transcript'[i].at = "POST"]_vars

C12_Witness ==
    /\ phase = "POST"
    /\ registered = <<CbNested>>
    /\ Cardinality(DrawnAt("commit")) = 1
    /\ immediate = 1
    /\ result = "GadgetError(b)"
    /\ Cardinality(DrawnAt("POST")) = 1
    /\ callbacks = <<>>

\* The subverifier returned what it returns for a well-formed proof.
WellFormedIpp ==
    /\ Len(vlocal.s) = vlocal.padded_n
    /\ Len(vlocal.u_sq) = Len(vlocal.proof.L_vec)
    /\ Len(vlocal.u_inv_sq) = Len(vlocal.proof.R_vec)

\* A pair of the multiscalar multiplication as C13 lists it: the point, the
\* expression the scalar comes from and the scalar's value.
Pair(base, bi, scalar, si, val) ==
    [base |-> base, bi |-> bi, scalar |-> scalar, si |-> si, val |-> val]

C13_Pairs ==
    LET x == vlocal.ch.x
        r == vlocal.ch.r
        wV == vlocal.flat.wV
    IN  << Pair("A_I", 0, "x", 0, Sc(x)),
           Pair("A_O", 0, "xx", 0, Sc(Pow(x, 2))),
           Pair("S", 0, "xxx", 0, Sc(Pow(x, 3))) >>
        \o [i \in 1..vlocal.m |->
               Pair("V", i - 1, "wV * rxx", i - 1, Sc(r * Pow(x, 2) * wV[i]))]
        \o << Pair("T_1", 0, "T_scalars", 0, Sc(r * x)),
              Pair("T_3", 0, "T_scalars", 1, Sc(r * Pow(x, 3))),
              Pair("T_4", 0, "T_scalars", 2, Sc(r * Pow(x, 4))),
              Pair("T_5", 0, "T_scalars", 3, Sc(r * Pow(x, 5))),
              Pair("T_6", 0, "T_scalars", 4, Sc(r * Pow(x, 6))) >>
        \o << Pair("B", 0, "B", 0, vlocal.scalars[3 + vlocal.m + 5 + 1].val),
              Pair("B_blinding", 0, "B_blinding", 0,
                   vlocal.scalars[3 + vlocal.m + 5 + 2].val) >>
        \o [i \in 1..vlocal.padded_n |->
               Pair("G", i - 1, "g_scalars", i - 1, vlocal.g_scalars[i])]
        \o [i \in 1..vlocal.padded_n |->
               Pair("H", i - 1, "h_scalars", i - 1, vlocal.h_scalars[i])]
        \o [j \in 1..Len(vlocal.proof.L_vec) |->
               Pair("L", j - 1, "u_sq", j - 1, vlocal.u_sq[j])]
        \o [j \in 1..Len(vlocal.proof.R_vec) |->
               Pair("R", j - 1, "u_inv_sq", j - 1, vlocal.u_inv_sq[j])]

\* C13: for a well-formed proof the scalars and the points of the multiscalar
\* multiplication have the same length 3 + m + 5 + 2 + 2n' + |L_vec| +
\* |R_vec| and are paired position by position as A_I:x, A_O:x^2, S:x^3,
\* V_i:r*x^2*wV[i], T_1:r*x, T_3:r*x^3, T_4:r*x^4, T_5:r*x^5, T_6:r*x^6, B,
\* B_blinding, G_i:g_scalars[i], H_i:h_scalars[i], L_j:u_sq[j],
\* R_j:u_inv_sq[j]; there are exactly 5 T terms.
C13_MegaCheckPairing ==
    (MegaCheckEvaluated /\ WellFormedIpp) =>
       LET len == 3 + vlocal.m + 5 + 2 + 2 * vlocal.padded_n
                  + Len(vlocal.proof.L_vec) + Len(vlocal.proof.R_vec)
           sc == vlocal.scalars
           pt == vlocal.point_names
       IN  /\ Len(sc) = len
           /\ Len(pt) = len
           /\ Len(vlocal.points) = len
           /\ Len(C13_Pairs) = len
           /\ \A p \in 1..len :
                 /\ pt[p] = Base(C13_Pairs[p].base, C13_Pairs[p].bi)
                 /\ sc[p] = Term(C13_Pairs[p].scalar, C13_Pairs[p].si,
                                 C13_Pairs[p].val)
           /\ Cardinality({p \in 1..len : sc[p].name = "T_scalars"}) = 5
           /\ Cardinality({p \in 1..len :
                              pt[p].name \in {"T_1", "T_3", "T_4", "T_5", "T_6"}})
                 = 5

C13_Witness ==
    /\ MegaCheckEvaluated
    /\ WellFormedIpp
    /\ num_vars = 3
    /\ Len(V) = 1
    /\ Len(vlocal.scalars) = 23
    /\ vlocal.point_names[23] = Base("R", 1)
    /\ vlocal.scalars[23].name = "u_inv_sq"

\* The constraints that are trivially zero: no terms, or one term with a
\* zero coefficient.
ZeroConstraints(n, m) == {<<>>} \cup {<< <<v, 0>> >> : v \in Variables(n, m)}

\* cons with the constraint lc inserted after its first p constraints
InsertAt(cons, p, lc) ==
    SubSeq(cons, 1, p) \o << lc >> \o SubSeq(cons, p + 1, Len(cons))

\* The weights in which the contributions counted in `pre` stay and all the
\* others are multiplied by z.
ShiftRest(pre, all, z) ==
    [wL |-> [i \in 1..Len(all.wL) |-> pre.wL[i] + z * (all.wL[i] - pre.wL[i])],
     wR |-> [i \in 1..Len(all.wR) |-> pre.wR[i] + z * (all.wR[i] - pre.wR[i])],
     wO |-> [i \in 1..Len(all.wO) |-> pre.wO[i] + z * (all.wO[i] - pre.wO[i])],
     wV |-> [i \in 1..Len(all.wV) |-> pre.wV[i] + z * (all.wV[i] - pre.wV[i])],
     wc |-> pre.wc + z * (all.wc - pre.wc),
     panic |-> FALSE]

Flattened == vlocal.called = "flattened_constraints"

InversePower(y, i) ==
    CHOOSE v \in 0..(ScalarOrder - 1) : Sc(v * Pow(y, i)) = 1

\* C16: for a subverifier result s of length n', verify produces exactly n'
\* g-scalars and n' h-scalars, with for every i < n':
\* g_scalar[i] = x*yneg_wR[i] - a*s[i] and
\* h_scalar[i] = yInv[i]*(x*wL'[i] + wO'[i] - b*s[n'-1-i]) - 1, where
\* yInv[i] = y^-i, yneg_wR[i] = wR[i]*yInv[i] for i < n and 0 for
\* n <= i < n', wL' and wO' are wL and wO followed by zeros up to length n',
\* and delta is the inner product of yneg_wR[0..n] with wL.
C16_GHScalars ==
    (MegaCheckEvaluated /\ Len(vlocal.s) = vlocal.padded_n) =>
       LET n == vlocal.n
           np == vlocal.padded_n
           x == vlocal.ch.x
           y == vlocal.ch.y
           a == vlocal.proof.a
           b == vlocal.proof.b
           sv == vlocal.s
           wL == vlocal.flat.wL
           wR == vlocal.flat.wR
           wO == vlocal.flat.wO
           yInv == [i \in 0..(np - 1) |-> InversePower(y, i)]
           ynegwR == [i \in 0..(np - 1) |->
                        IF i < n THEN Sc(wR[i + 1] * yInv[i]) ELSE 0]
           wLp == [i \in 0..(np - 1) |-> IF i < n THEN wL[i + 1] ELSE 0]
           wOp == [i \in 0..(np - 1) |-> IF i < n THEN wO[i + 1] ELSE 0]
       IN  /\ Len(vlocal.g_scalars) = np
           /\ Len(vlocal.h_scalars) = np
           /\ Len(vlocal.y_inv_vec) = np
           /\ Len(vlocal.yneg_wR) = np
           /\ \A i \in 0..(np - 1) :
                 /\ vlocal.y_inv_vec[i + 1] = yInv[i]
                 /\ vlocal.yneg_wR[i + 1] = ynegwR[i]
                 /\ vlocal.g_scalars[i + 1] = Sc(x * ynegwR[i] - a * sv[i + 1])
                 /\ vlocal.h_scalars[i + 1] =
                       Sc(yInv[i] * (x * wLp[i] + wOp[i] - b * sv[np - 1 - i + 1])
                          - 1)
           /\ vlocal.delta =
                 Sc(SumSeq([i \in 1..n |-> ynegwR[i - 1] * wL[i]]))

C16_Witness ==
    /\ MegaCheckEvaluated
    /\ Len(vlocal.s) = vlocal.padded_n
    /\ num_vars = 3
    /\ vlocal.padded_n = 4
    /\ Len(constraints) = 2
    /\ vlocal.ch.y = 5
    /\ vlocal.y_inv_vec = << 1, 3, 2, 6 >>
    /\ vlocal.yneg_wR[2] # 0
    /\ vlocal.yneg_wR[4] = 0
    /\ vlocal.flat.wL[2] # 0
    /\ Len(vlocal.h_scalars) = 4
    /\ vlocal.delta # 0

\* The three variables of multiplier k carrying the assignments asg.
MultiplierVariables(k, asg) ==
    << Variable(MultiplierLeft(k), asg[1]),
       Variable(MultiplierRight(k), asg[2]),
       Variable(MultiplierOutput(k), asg[3]) >>

\* The multiplier indices on which the constraints cons have a term.
TermIndices(cons) ==
    UNION {{cons[q][t][1].i : t \in {u \in 1..Len(cons[q]) :
                cons[q][u][1].kind \in {"MultiplierLeft", "MultiplierRight",
                                        "MultiplierOutput"}}} :
           q \in 1..Len(cons)}

\* A call of assign_multiplier returns the variables of multiplier num_vars
\* with the assignments supplied and adds 1 to num_vars.
AssignMultiplierReturns ==
    \A asg \in AssignmentTriples :
       AssignMultiplier(asg[1], asg[2], asg[3]) =>
          /\ num_vars' = num_vars + 1
          /\ multipliers' =
                Append(multipliers, MultiplierVariables(num_vars, asg))

\* Flattening (alone or in verify) works on the current num_vars and
\* constraint list.
FlattensCurrent ==
    vlocal' # vlocal =>
       /\ vlocal'.n = num_vars
       /\ vlocal'.cons = constraints

\* C17: in PRE and in POST assign_multiplier succeeds, returns
\* (MultiplierLeft(k), MultiplierRight(k), MultiplierOutput(k)) with k the
\* value of num_vars before the call and with the assignments supplied, and
\* increases num_vars by exactly 1; so the multipliers handed out are exactly
\* 0 .. num_vars - 1 in order, without gap or repeat, and when flattening
\* runs every multiplier index of a constraint is below num_vars.
C17_AssignMultiplierDense ==
    /\ [](/\ Len(multipliers) = num_vars
          /\ \A k \in 1..Len(multipliers) :
                /\ multipliers[k][1].index = MultiplierLeft(k - 1)
                /\ multipliers[k][2].index = MultiplierRight(k - 1)
                /\ multipliers[k][3].index = MultiplierOutput(k - 1)
          /\ (phase \in {"PRE", "POST"} /\ num_vars < MaxVars) =>
                ENABLED AssignMultiplier(Missing, Missing, Missing)
          /\ vlocal.called # "none" =>
                /\ ~vlocal.flat.panic
                /\ \A i \in TermIndices(vlocal.cons) : i < vlocal.n)
    /\ [][AssignMultiplierReturns /\ FlattensCurrent]_vars

C17_Witness ==
    /\ phase = "POST"
    /\ committed_variables_count = 1
    /\ registered = <<>>
    /\ immediate = 0
    /\ num_vars = 2
    /\ multipliers =
          << MultiplierVariables(0, <<"Value(2)", "Value(3)", "Value(6)">>),
             MultiplierVariables(1, <<Missing, Missing, Missing>>) >>
    /\ vlocal.called = "flattened_constraints"
    /\ TermIndices(vlocal.cons) = {1}

\* A call of VerifierCS::new stores the commitments as V and appends its
\* operations to the transcript it is given.
NewStores ==
    \A commitments \in LifecycleCommitments, cap \in LifecycleGens :
       New(commitments, cap) =>
          /\ V' = commitments
          /\ Len(transcript') = Len(transcript) + 1 + Len(commitments)

\* Once the CS exists, V and the variables new returned stay as they are.
ExternalsFixed ==
    phase # "NONE" => (V' = V /\ variables' = variables)

\* C18: VerifierCS::new with m commitments absorbs the domain separator
\* carrying m, then V_0 .. V_{m-1} under the label V in index order, and
\* returns exactly the m variables Committed(0) .. Committed(m-1) in that
\* order, all with missing assignments; afterwards no operation changes the
\* length, the order or the content of V.
C18_NewAbsorbsAndFixesExternals ==
    /\ [](phase # "NONE" =>
            /\ Len(transcript) >= 1 + Len(V)
            /\ transcript[1] = TOp("domain_sep", "dom-sep", Len(V), "new")
            /\ \A j \in 1..Len(V) :
                  transcript[j + 1] = TOp("commit_point", "V", j - 1, "new")
            /\ Len(variables) = Len(V)
            /\ \A j \in 1..Len(V) :
                  variables[j] = Variable(Committed(j - 1), Missing))
    /\ [][NewStores /\ ExternalsFixed]_vars

C18_Witness ==
    /\ phase = "CONSUMED"
    /\ V = <<"P1", "Pbad">>
    /\ variables = << Variable(Committed(0), Missing),
                      Variable(Committed(1), Missing) >>
    /\ num_vars = 2
    /\ committed_variables_count = 1
    /\ Len(constraints) = 1
    /\ Len(transcript) > 3

\* The closures commit runs: all of them, or those up to the first that fails.
RanBodies ==
    LET f == FirstFailing(registered, 1)
    IN  IF f = 0 THEN registered ELSE SubSeq(registered, 1, f)

RECURSIVE ConstraintsOfAll(_)
ConstraintsOfAll(bodies) ==
    IF bodies = <<>> THEN <<>>
    ELSE ConstraintsOf(Head(bodies).ops) \o ConstraintsOfAll(Tail(bodies))

RECURSIVE AssignCountAll(_)
AssignCountAll(bodies) ==
    IF bodies = <<>> THEN 0
    ELSE AssignCount(Head(bodies).ops) + AssignCountAll(Tail(bodies))

\* A call of add_constraint appends the constraint at the end.
AddConstraintAppends ==
    \A lc \in LifecycleConstraints(num_vars, Len(V)) :
       AddConstraint(lc) => constraints' = Append(constraints, lc)

\* commit appends what the closures it runs add, in the order they run.
CommitAppends ==
    Commit =>
       /\ constraints' = constraints \o ConstraintsOfAll(RanBodies)
       /\ num_vars' = num_vars + AssignCountAll(RanBodies)

\* C19: the constraint list is append-only.  add_constraint (in PRE, in POST
\* or in a deferred closure) appends exactly one constraint at the end; no
\* operation removes, reorders or rewrites a constraint already in the list;
\* the constraints and multipliers that closures add during commit are in
\* the list and in the num_vars that verify flattens.
C19_ConstraintsAppendOnly ==
    [][/\ IsPrefix(constraints, constraints')
       /\ AddConstraintAppends
       /\ CommitAppends
       /\ FlattensCurrent
       /\ Len(constraints') > Len(constraints) + 1 =>
             (Commit \/ \E cb \in AssemblyCallbacks : AfterCommitmentPost(cb))
      ]_vars

C19_Witness ==
    /\ phase = "CONSUMED"
    /\ registered = <<CbAlloc>>
    /\ committed_variables_count = 0
    /\ constraints = << << <<One, 1>> >>,
                        << <<MultiplierLeft(0), 1>>, <<One, -1>> >> >>
    /\ vlocal.called = "verify"
    /\ vlocal.cons = constraints
    /\ vlocal.n = 1
    /\ vlocal.flat.wL = << 9 >>

\* No operation decreases num_vars.
NumVarsMonotone == num_vars' >= num_vars

\* verify and flattened_constraints work on the current num_vars and leave
\* num_vars, the constraint list and V as they are.
VerifyFrame ==
    vlocal' # vlocal =>
       /\ num_vars' = num_vars
       /\ constraints' = constraints
       /\ V' = V
       /\ vlocal'.n = num_vars
       /\ vlocal'.m = Len(V)

\* After verify the instance is consumed: num_vars is final.
FinalOnceVerified == phase = "CONSUMED" => num_vars' = num_vars

\* C20: num_vars never decreases, and from the moment verify starts it is
\* final: verify and flattened_constraints leave num_vars, the constraint
\* list and V unchanged, so the n from which verify computes n' and pad is
\* the n that sizes wL, wR and wO in flattening.
C20_NumVarsMonotoneAndFinal ==
    /\ [](vlocal.called # "none" =>
            /\ vlocal.called = "verify" =>
                  /\ vlocal.padded_n = next_power_of_two(vlocal.n)
                  /\ vlocal.pad = vlocal.padded_n - vlocal.n
            /\ (vlocal.called = "flattened_constraints" \/ MegaCheckEvaluated) =>
                  /\ Len(vlocal.flat.wL) = vlocal.n
                  /\ Len(vlocal.flat.wR) = vlocal.n
                  /\ Len(vlocal.flat.wO) = vlocal.n)
    /\ [][NumVarsMonotone /\ VerifyFrame /\ FinalOnceVerified]_vars

C20_Witness ==
    /\ phase = "CONSUMED"
    /\ vlocal.called = "verify"
    /\ MegaCheckEvaluated
    /\ registered = <<CbAlloc>>
    /\ num_vars = 1
    /\ vlocal.n = 1
    /\ vlocal.padded_n = 1
    /\ Len(vlocal.flat.wL) = 1
    /\ V = <<"P1", "Pbad">>

\* The phase changes an instance can go through.
LifecycleOrder ==
    {<<"NONE", "PRE">>, <<"PRE", "POST">>, <<"PRE", "FAILED">>,
     <<"POST", "CONSUMED">>}

\* A phase changes only along the lifecycle: PRE becomes POST only when
\* commit returns Ok, POST becomes CONSUMED only by verify.
LifecycleOneWay ==
    phase' # phase =>
       /\ <<phase, phase'>> \in LifecycleOrder
       /\ (phase = "PRE" /\ phase' = "POST") => result' = "Ok"
       /\ phase' = "CONSUMED" =>
             /\ vlocal'.called = "verify"
             /\ vlocal.called # "verify"

\* Verify runs at most once, and only from POST.
VerifyOnlyCommitted == vlocal' # vlocal => (phase = "POST" /\ phase' = "CONSUMED")

\* Once verify has returned, nothing changes any more.
ConsumedIsFinal == phase = "CONSUMED" => vars' = vars

\* C21: the lifecycle is PRE -> (commit) -> POST -> (verify) -> consumed and
\* one-way; verify runs only on a committed CS, after commit has returned Ok
\* with every deferred closure executed; after verify has returned, accepting
\* or rejecting, no CS operation and no second verify takes place.
C21_LifecycleOneWaySingleUse ==
    /\ [](/\ vlocal.called = "verify" <=> phase = "CONSUMED"
          /\ phase = "CONSUMED" =>
                /\ callbacks = <<>>
                /\ ran = FifoLog(Len(registered))
                /\ \A j \in 1..Len(registered) : registered[j].res = "Ok"
                /\ result \in {"Ok", "VerificationError",
                               "InvalidGeneratorsLength"}
          /\ phase \in {"NONE", "PRE", "FAILED"} => vlocal = NoLocal)
    /\ [][LifecycleOneWay /\ VerifyOnlyCommitted /\ ConsumedIsFinal]_vars

C21_Witness ==
    /\ phase = "CONSUMED"
    /\ registered = <<CbAlloc, CbNested>>
    /\ ran = FifoLog(2)
    /\ immediate > 0
    /\ result = "VerificationError"
    /\ vlocal.called = "verify"

\* A call of assign_multiplier (on either CS): one more multiplier, and
\* nothing else of the CS touched.
AssignMultiplierFrame ==
    (\E asg \in AssignmentTriples : AssignMultiplier(asg[1], asg[2], asg[3])) =>
       /\ num_vars' = num_vars + 1
       /\ transcript' = transcript
       /\ constraints' = constraints
       /\ callbacks' = callbacks
       /\ ran' = ran

\* A call of add_constraint (on either CS): one more constraint, and nothing
\* else of the CS touched.
AddConstraintFrame ==
    (\E lc \in LifecycleConstraints(num_vars, Len(V)) : AddConstraint(lc)) =>
       /\ Len(constraints') = Len(constraints) + 1
       /\ transcript' = transcript
       /\ num_vars' = num_vars
       /\ multipliers' = multipliers
       /\ callbacks' = callbacks
       /\ ran' = ran

\* A call of after_commitment before commit: the closure is queued, not run.
AfterCommitmentPreFrame ==
    \A cb \in AssemblyCallbacks :
       AfterCommitmentPre(cb) =>
          /\ Len(callbacks') = Len(callbacks) + 1
          /\ callbacks'[Len(callbacks')].body = cb
          /\ SubSeq(callbacks', 1, Len(callbacks)) = callbacks
          /\ transcript' = transcript
          /\ num_vars' = num_vars
          /\ multipliers' = multipliers
          /\ constraints' = constraints
          /\ ran' = ran
          /\ immediate' = immediate
          /\ result' = result

\* C22: assign_multiplier, add_constraint and the pre-commit after_commitment
\* perform no transcript operation; assign_multiplier leaves the constraint
\* list and the callback queue unchanged; add_constraint leaves num_vars and
\* the callback queue unchanged; the pre-commit after_commitment leaves
\* num_vars and the constraint list unchanged and does not run the closure.
C22_AssemblyFrame ==
    [][AssignMultiplierFrame /\ AddConstraintFrame /\ AfterCommitmentPreFrame]_vars

C22_Witness ==
    /\ phase = "PRE"
    /\ num_vars = 1
    /\ multipliers = << MultiplierVariables(0, <<"Value(2)", "Value(3)", "Value(6)">>) >>
    /\ Len(constraints) = 1
    /\ Len(callbacks) = 1
    /\ callbacks[1].body = CbAlloc
    /\ registered = <<CbAlloc>>
    /\ ran = <<>>
    /\ transcript = new_transcript(V)
    /\ Len(V) = 1

====
